---- MODULE Spec2Model ----
(***************************************************************************)
(* Campaign pipeline orchestrator, approval protocol and dispatch engine   *)
(* of the InFynd campaign engine, for one campaign row.                    *)
(*                                                                         *)
(* Every action is one piece of a coroutine between two suspension points  *)
(* (an awaited commit or external call); the database is the shared state. *)
(***************************************************************************)
EXTENDS Integers, Sequences, FiniteSets, TLC

(***************************************************************************)
(* Bounds                                                                  *)
(***************************************************************************)
\* contacts in the Contact Store
MaxContacts == 2
\* execute_pipeline invocations for the campaign (BackgroundTasks + Celery)
NumRuns == 2
\* approval sessions opened on the campaign
NumSessions == 1
\* run_dispatch tasks queued for the campaign
NumCelery == 2
\* send-preview requests
MaxPreview == 1
\* concurrent content edit requests of the REST interface
NumEdits == 2
\* pieces of a template string handed to _substitute
MaxLen == 2

Contacts == 1..MaxContacts
Invocations == 1..NumRuns
Sessions == 1..NumSessions
EditRequests == 1..NumEdits

\* dispatch_campaign invocations: the follow-on of each execute_pipeline
\* invocation, the background task of approve_campaign, the task of each
\* approval session and the run_dispatch tasks
InlineDispatch(p) == p
ApproveDispatch == 100
SessionDispatch(s) == 200 + s
CeleryDispatch == {300 + j : j \in 1..NumCelery}
Dispatchers ==
    Invocations \cup {ApproveDispatch} \cup {SessionDispatch(s) : s \in Sessions}
        \cup CeleryDispatch

\* a missing engagement score (NULL column)
NULL == -1

(***************************************************************************)
(* models/campaign.py                                                      *)
(***************************************************************************)
PipelineState ==
    {"CREATED", "CLASSIFIED", "CONTACTS_RETRIEVED", "CHANNEL_DECIDED",
     "CONTENT_GENERATED", "AWAITING_APPROVAL", "APPROVED", "DISPATCHED",
     "COMPLETED", "FAILED"}

\* the priority list in the opposite order
CHANNEL_PRIORITY_Reversed == <<"Call", "LinkedIn", "Email">>

\* agents/channel_decision_agent.py
CHANNEL_PRIORITY == <<"Email", "LinkedIn", "Call">>

Channels == {CHANNEL_PRIORITY[i] : i \in 1..3}

\* the empty mapping (an absent or empty JSON object)
EmptyMap == [x \in {} |-> "Email"]

(***************************************************************************)
(* Contact Store rows (models/contact.py): the three engagement rates.     *)
(* A slot of the store may hold no contact.                                *)
(***************************************************************************)
Profile(e, l, c) ==
    [present |-> TRUE, emailclickrate |-> e, linkedinclickrate |-> l,
     callanswerrate |-> c]

NoContact ==
    [present |-> FALSE, emailclickrate |-> NULL, linkedinclickrate |-> NULL,
     callanswerrate |-> NULL]

Profiles ==
    { Profile(NULL, NULL, NULL),
      Profile(NULL, NULL, 1),
      Profile(1, 2, 0) }

\* dispatch_service.py 281-286 reads the attributes phone_number, phoneno and
\* phone of the Contact row; the Contact model declares none of them
HasPhone(contact) == FALSE

\* _decide_channel: highest present score, ties by CHANNEL_PRIORITY,
\* all scores absent -> Email
ScoreOf(contact, ch) ==
    CASE ch = "Email" -> contact.emailclickrate
      [] ch = "LinkedIn" -> contact.linkedinclickrate
      [] ch = "Call" -> contact.callanswerrate

_decide_channel(contact) ==
    LET non_null == {ch \in Channels : ScoreOf(contact, ch) # NULL}
    IN  IF non_null = {} THEN "Email"
        ELSE LET tied == {ch \in non_null :
                            \A o \in non_null : ScoreOf(contact, o) <= ScoreOf(contact, ch)}
                 first == CHOOSE i \in 1..3 :
                            /\ CHANNEL_PRIORITY[i] \in tied
                            /\ \A j \in 1..(i - 1) : CHANNEL_PRIORITY[j] \notin tied
             IN  CHANNEL_PRIORITY[first]

(***************************************************************************)
(* State                                                                   *)
(***************************************************************************)
VARIABLES
    store,              \* Contact Store: contact -> profile
    pipeline_state,     \* Campaign.pipeline_state
    pipeline_locked,    \* Campaign.pipeline_locked
    approval_required,  \* Campaign.approval_required
    approved_by,        \* Campaign.approved_by ("" = NULL)
    generated_content,  \* Campaign.generated_content: common, contacts, personalized
    runs,               \* pipeline_runs rows, in creation order
    opc,                \* execute_pipeline invocation -> position
    orun,               \* execute_pipeline invocation -> index of its pipeline_run (0 = none)
    stages,             \* execute_pipeline invocation -> stages it has started, in order
    dpc,                \* dispatch_campaign invocation -> position
    dsnap,              \* dispatch_campaign invocation -> generated_content it read on entry
    dtodo,              \* dispatch_campaign invocation -> contacts still to iterate
    dpending,           \* dispatch_campaign invocation -> rows added to its session, not committed
    outbound,           \* committed outbound_messages rows
    nrows,              \* outbound_messages rows created so far (row ids)
    sent_events,        \* engagement_history rows of event type SENT created so far
    ncalls,             \* calls made to the mail and voice providers so far
    accepted,           \* (contact, channel) tuples a provider has accepted a send for
    resent,             \* tuples a provider was called for again after it had accepted one
    apc,                \* approve_campaign request: position
    gpc,                \* regenerate_content request: position
    wpc,                \* approval session -> position
    wpending,           \* approval session -> items not yet approved
    wsent,              \* approval session -> type or code of the last message it sent
    npreview,           \* send_preview requests served
    epc,                \* content edit request -> position
    ecopy,              \* content edit request -> generated_content it read
    etarget,            \* content edit request -> channel whose template it replaces
    econtent,           \* content edit request -> content of its payload
    ekey,               \* content edit request -> contact of its path (0 = a channel's path)
    template,           \* the template handed to _substitute
    subject,            \* the contact record and the campaign handed to _substitute
    rendered            \* what _substitute returned

orchVars == <<opc, orun, stages>>
dispLocals == <<dsnap, dtodo, dpending>>
sendVars == <<outbound, nrows, sent_events, ncalls, accepted, resent>>
restVars == <<apc, gpc, npreview>>
wsVars == <<wpc, wpending, wsent>>
editVars == <<epc, ecopy, etarget, econtent, ekey>>
substVars == <<template, subject, rendered>>

vars == <<store, pipeline_state, pipeline_locked, approval_required, approved_by,
          generated_content, runs, orchVars, dpc, dispLocals, sendVars, restVars, wsVars,
          editVars, substVars>>

\* Campaign.generated_content is NULL until content generation has run
NoContent ==
    [keys |-> {}, common |-> {}, templates |-> EmptyMap, contacts |-> EmptyMap,
     personalized |-> EmptyMap]

\* the content of a template: the empty JSON object, what the generator
\* wrote, or what an edit request carried
TemplateContents == {"empty", "generated", "edited"}

\* the results of the three generator calls of a content generation
TemplateOutcomes == [Channels -> {"empty", "generated"}]

AllGenerated == [ch \in Channels |-> "generated"]

\* a filter of the classification: "" (no condition), or a term, given by the
\* contacts whose column matches it
NoFilter == [on |-> FALSE, blank |-> FALSE, matches |-> {}]

Filter(S) == [on |-> TRUE, blank |-> FALSE, matches |-> S]

FilterValues == {NoFilter} \cup {Filter(S) : S \in SUBSET Contacts}

\* a non-empty role filter that holds no term once split at the commas and
\* stripped, such as " ", "," or [""] (contact_retrieval_agent.py 64-69)
BlankRole == [on |-> TRUE, blank |-> TRUE, matches |-> {}]

FilterKeys == {"role", "location", "category", "company"}

\* classification_agent.py line 206: the fallback, all filters empty
NoFilters == [k \in FilterKeys |-> NoFilter]

\* every classification the generator may return
Classifications ==
    {f \in [FilterKeys -> FilterValues \cup {BlankRole}] :
        \A k \in FilterKeys \ {"role"} : ~f[k].blank}

\* a freshly inserted pipeline_runs row (pipeline_runner.py 58-62) with the
\* status of the latest committed log entry of each stage run on it
\* ("NONE": no entry)
NewRun ==
    [state |-> "CREATED", error_message |-> FALSE,
     classification |-> NoFilters, classification_log |-> "NONE",
     retrieval_log |-> "NONE", decision_log |-> "NONE", content_log |-> "NONE",
     contacts |-> {}, channel_map |-> EmptyMap]

\* _substitute has not been called
NotRendered == [kind |-> "none"]

NoSubstitution ==
    /\ template = NotRendered
    /\ subject = NotRendered
    /\ rendered = NotRendered

\* no coroutine has started and nothing has been sent
Quiet ==
    /\ opc = [p \in Invocations |-> "start"]
    /\ orun = [p \in Invocations |-> 0]
    /\ stages = [p \in Invocations |-> <<>>]
    /\ dpc = [d \in Dispatchers |-> "idle"]
    /\ dsnap = [d \in Dispatchers |-> NoContent]
    /\ dtodo = [d \in Dispatchers |-> {}]
    /\ dpending = [d \in Dispatchers |-> {}]
    /\ outbound = {}
    /\ nrows = 0
    /\ sent_events = 0
    /\ ncalls = 0
    /\ accepted = {}
    /\ resent = {}
    /\ apc = "idle"
    /\ gpc = "idle"
    /\ wpc = [s \in Sessions |-> "idle"]
    /\ wpending = [s \in Sessions |-> 0]
    /\ wsent = [s \in Sessions |-> ""]
    /\ npreview = 0
    /\ epc = [r \in EditRequests |-> "idle"]
    /\ ecopy = [r \in EditRequests |-> NoContent]
    /\ etarget = [r \in EditRequests |-> "Email"]
    /\ econtent = [r \in EditRequests |-> "empty"]
    /\ ekey = [r \in EditRequests |-> 0]

Idle == NoSubstitution /\ Quiet

\* the present contacts of a store fill its first slots
Stores ==
    {st \in [Contacts -> Profiles \cup {NoContact}] :
        \A c \in Contacts : st[c].present => \A b \in 1..(c - 1) : st[b].present}

\* create_campaign: a new campaign row, pipeline not yet started
Init ==
    /\ store \in Stores
    /\ pipeline_state = "CREATED"
    /\ pipeline_locked = FALSE
    /\ approval_required \in BOOLEAN
    /\ approved_by = ""
    /\ generated_content = NoContent
    /\ runs = <<>>
    /\ Idle

(***************************************************************************)
(* services/pipeline_runner.py: execute_pipeline                           *)
(***************************************************************************)
\* UPDATE pipeline_runs ... WHERE id = <one run>
SetRun(rs, i, st) == [rs EXCEPT ![i].state = st]

\* UPDATE pipeline_runs ... WHERE campaign_id = <campaign>: every run of the campaign
SetAllRuns(rs, st) == [i \in 1..Len(rs) |-> [rs[i] EXCEPT !.state = st]]

\* lines 36-47: read the campaign row; a locked campaign is skipped
LockCheck(p) ==
    /\ opc[p] = "start"
    /\ opc' = [opc EXCEPT ![p] = IF pipeline_locked THEN "skipped" ELSE "lock"]
    /\ UNCHANGED <<store, editVars, substVars, pipeline_state, pipeline_locked, approval_required,
                   approved_by, generated_content, runs, orun, stages,
                   dpc, dispLocals, sendVars, restVars, wsVars>>

\* LockAndCreateRun handing over to the Retrieval stage
LockAndCreateRun_ToRetrieval(p) ==
    /\ opc[p] = "lock"
    /\ pipeline_locked' = TRUE
    /\ runs' = Append(runs, NewRun)
    /\ orun' = [orun EXCEPT ![p] = Len(runs) + 1]
    /\ opc' = [opc EXCEPT ![p] = "retrieve"]
    /\ UNCHANGED <<store, editVars, substVars, pipeline_state, approval_required, approved_by,
                   generated_content, stages,
                   dpc, dispLocals, sendVars, restVars, wsVars>>

\* lines 49-67: set the lock, commit, insert the pipeline_run, commit
LockAndCreateRun(p) ==
    /\ opc[p] = "lock"
    /\ pipeline_locked' = TRUE
    /\ runs' = Append(runs, NewRun)
    /\ orun' = [orun EXCEPT ![p] = Len(runs) + 1]
    /\ opc' = [opc EXCEPT ![p] = "classify"]
    /\ UNCHANGED <<store, editVars, substVars, pipeline_state, approval_required, approved_by,
                   generated_content, stages,
                   dpc, dispLocals, sendVars, restVars, wsVars>>

\* run_classification_agent with a failed generator call raising
run_classification_agent_Raises(p, result, ok) ==
    /\ opc[p] = "classify"
    /\ stages' = [stages EXCEPT ![p] = Append(@, "classify")]
    /\ IF ok
       THEN /\ runs' = [runs EXCEPT ![orun[p]].classification = result,
                                    ![orun[p]].classification_log = "SUCCESS",
                                    ![orun[p]].state = "CLASSIFIED"]
            /\ pipeline_state' = "CLASSIFIED"
            /\ opc' = [opc EXCEPT ![p] = "retrieve"]
       ELSE /\ runs' = [runs EXCEPT ![orun[p]].classification_log = "FAILED"]
            /\ opc' = [opc EXCEPT ![p] = "except"]
            /\ UNCHANGED pipeline_state
    /\ UNCHANGED <<store, editVars, substVars, pipeline_locked, approval_required, approved_by,
                   generated_content, orun,
                   dpc, dispLocals, sendVars, restVars, wsVars>>

\* agents/classification_agent.py run_classification_agent: the generator's
\* classification is persisted with CLASSIFIED (lines 150-199); when the call
\* fails or its output does not parse, the all-empty filters are persisted
\* with CLASSIFIED and the log entry FAILED (lines 201-237); the stage never
\* raises
run_classification_agent(p, result, ok) ==
    /\ opc[p] = "classify"
    /\ stages' = [stages EXCEPT ![p] = Append(@, "classify")]
    /\ runs' = [runs EXCEPT ![orun[p]].classification = IF ok THEN result ELSE NoFilters,
                            ![orun[p]].classification_log = IF ok THEN "SUCCESS" ELSE "FAILED",
                            ![orun[p]].state = "CLASSIFIED"]
    /\ pipeline_state' = "CLASSIFIED"
    /\ opc' = [opc EXCEPT ![p] = "retrieve"]
    /\ UNCHANGED <<store, editVars, substVars, pipeline_locked, approval_required, approved_by,
                   generated_content, orun,
                   dpc, dispLocals, sendVars, restVars, wsVars>>

\* the field of a run that holds the status of a stage's log entry
LogField(stage) ==
    CASE stage = "classify" -> "classification_log"
      [] stage = "retrieve" -> "retrieval_log"
      [] stage = "decide" -> "decision_log"
      [] stage = "generate" -> "content_log"

\* a stage raises and control passes to the except clause of execute_pipeline
\* (line 121). The stage's except clause updates the log entry it had flushed
\* to FAILED and commits (e.g. contact_retrieval_agent.py 210-225); when the
\* exception came from the database the transaction is aborted, the update
\* raises in its turn and the rollback of execute_pipeline (line 125) discards
\* the entry
StageRaises(p, stage) ==
    /\ opc[p] = stage
    /\ stages' = [stages EXCEPT ![p] = Append(@, stage)]
    /\ opc' = [opc EXCEPT ![p] = "except"]
    /\ \E logged \in BOOLEAN :
          runs' = [runs EXCEPT ![orun[p]][LogField(stage)] =
                                  IF logged THEN "FAILED" ELSE "NONE"]
    /\ UNCHANGED <<store, editVars, substVars, pipeline_state, pipeline_locked, approval_required,
                   approved_by, generated_content, orun,
                   dpc, dispLocals, sendVars, restVars, wsVars>>

\* the rows of the contacts table
Present == {c \in Contacts : store[c].present}

\* _build_contact_query: the contacts that satisfy every non-empty filter
Query(filters) ==
    {c \in Present : \A k \in FilterKeys : filters[k].on => c \in filters[k].matches}

\* contact_retrieval_agent.py line 132: the order in which filters are relaxed
RELAX_KEYS == <<"company", "location", "category", "role">>

\* Relax with each filter cleared on its own, the others as classified
RECURSIVE Relax_Single(_, _)
Relax_Single(filters, i) ==
    IF i > Len(RELAX_KEYS) THEN {}
    ELSE IF ~filters[RELAX_KEYS[i]].on THEN Relax_Single(filters, i + 1)
    ELSE LET relaxed == [filters EXCEPT ![RELAX_KEYS[i]] = NoFilter]
         IN  IF Query(relaxed) # {} THEN Query(relaxed) ELSE Relax_Single(filters, i + 1)

\* lines 134-147: from the i-th key on, each non-empty filter is cleared in
\* turn and the query repeated, until it returns a contact
RECURSIVE Relax(_, _)
Relax(filters, i) ==
    IF i > Len(RELAX_KEYS) THEN {}
    ELSE IF ~filters[RELAX_KEYS[i]].on THEN Relax(filters, i + 1)
    ELSE LET relaxed == [filters EXCEPT ![RELAX_KEYS[i]] = NoFilter]
         IN  IF Query(relaxed) # {} THEN Query(relaxed) ELSE Relax(relaxed, i + 1)

\* line 162: LIMIT of the last fallback query
FALLBACK_LIMIT == 50

\* lines 154-166: the first rows of the unfiltered query
Top(S, n) ==
    IF Cardinality(S) <= n THEN S
    ELSE CHOOSE T \in SUBSET S : Cardinality(T) = n

\* lines 121-166: the query, then the relaxations, then the unfiltered fallback
RetrievedFor(filters) ==
    IF Query(filters) # {} THEN Query(filters)
    ELSE IF Relax(filters, 1) # {} THEN Relax(filters, 1)
    ELSE Top(Present, FALLBACK_LIMIT)

\* _build_contact_query lines 71-80: a role filter without terms is neither
\* a single term nor joins any clause, the condition is "()" and the
\* database rejects the statement
QueryRaises(filters) == filters["role"].blank

\* run_contact_retrieval_agent: the log entry is flushed (lines 111-118) and
\* the first query is built from the persisted classification (lines 120-124);
\* when the query raises, the update of the log entry in the except clause
\* (lines 210-223) hits the aborted transaction and raises too, and the entry
\* is rolled back; otherwise the contacts are persisted with
\* CONTACTS_RETRIEVED and the entry with SUCCESS (lines 181-205)
run_contact_retrieval_agent(p) ==
    /\ opc[p] = "retrieve"
    /\ stages' = [stages EXCEPT ![p] = Append(@, "retrieve")]
    /\ IF QueryRaises(runs[orun[p]].classification)
       THEN /\ opc' = [opc EXCEPT ![p] = "except"]
            /\ UNCHANGED <<runs, pipeline_state>>
       ELSE /\ runs' = [runs EXCEPT
                          ![orun[p]].contacts = RetrievedFor(runs[orun[p]].classification),
                          ![orun[p]].retrieval_log = "SUCCESS",
                          ![orun[p]].state = "CONTACTS_RETRIEVED"]
            /\ pipeline_state' = "CONTACTS_RETRIEVED"
            /\ opc' = [opc EXCEPT ![p] = "decide"]
    /\ UNCHANGED <<store, editVars, substVars, pipeline_locked, approval_required, approved_by,
                   generated_content, orun,
                   dpc, dispLocals, sendVars, restVars, wsVars>>

\* agents/channel_decision_agent.py run_channel_decision_agent
ChannelMap(cs) == [c \in cs |-> _decide_channel(store[c])]

run_channel_decision_agent(p) ==
    /\ opc[p] = "decide"
    /\ stages' = [stages EXCEPT ![p] = Append(@, "decide")]
    /\ runs' = [runs EXCEPT ![orun[p]].channel_map = ChannelMap(runs[orun[p]].contacts),
                            ![orun[p]].decision_log = "SUCCESS",
                            ![orun[p]].state = "CHANNEL_DECIDED"]
    /\ pipeline_state' = "CHANNEL_DECIDED"
    /\ opc' = [opc EXCEPT ![p] = "generate"]
    /\ UNCHANGED <<store, editVars, substVars, pipeline_locked, approval_required, approved_by,
                   generated_content, orun,
                   dpc, dispLocals, sendVars, restVars, wsVars>>

\* the channel of a contact in content generation (line 237)
ChannelOf(run, c) ==
    IF c \in DOMAIN run.channel_map THEN run.channel_map[c] ELSE "Email"

\* agents/content_generator_agent.py lines 228-277: one template per channel,
\* whatever JSON object the generator returned for it; one personalized entry
\* per contact whose channel has a non-empty template (lines 238-240); stored
\* under "common" and "personalized"
GeneratedBundle(run, tpl) ==
    [keys |-> {"common", "personalized"},
     common |-> Channels,
     templates |-> tpl,
     contacts |-> EmptyMap,
     personalized |-> [c \in {x \in run.contacts : tpl[ChannelOf(run, x)] # "empty"} |->
                         ChannelOf(run, c)]]

run_content_generator_agent(p, tpl) ==
    /\ opc[p] = "generate"
    /\ stages' = [stages EXCEPT ![p] = Append(@, "generate")]
    /\ generated_content' = GeneratedBundle(runs[orun[p]], tpl)
    /\ runs' = [runs EXCEPT ![orun[p]].content_log = "SUCCESS",
                            ![orun[p]].state = "CONTENT_GENERATED"]
    /\ pipeline_state' = "CONTENT_GENERATED"
    /\ opc' = [opc EXCEPT ![p] = "finish"]
    /\ UNCHANGED <<store, editVars, substVars, pipeline_locked, approval_required, approved_by, orun,
                   dpc, dispLocals, sendVars, restVars, wsVars>>

\* next_state without the approval branch
next_state_Approved == "APPROVED"

\* lines 92-119: AWAITING_APPROVAL or APPROVED, the lock is released, and
\* without approval dispatch_campaign is called as follow-on
next_state == IF approval_required THEN "AWAITING_APPROVAL" ELSE "APPROVED"

\* Finish with the lock left set
Finish_KeepsLock(p) ==
    /\ opc[p] = "finish"
    /\ pipeline_state' = next_state
    /\ runs' = SetRun(runs, orun[p], next_state)
    /\ opc' = [opc EXCEPT ![p] = IF approval_required THEN "done" ELSE "dispatch"]
    /\ dpc' = IF approval_required THEN dpc
              ELSE [dpc EXCEPT ![InlineDispatch(p)] = "start"]
    /\ UNCHANGED <<store, editVars, substVars, pipeline_locked, approval_required, approved_by,
                   generated_content, orun, stages, dispLocals, sendVars,
                   restVars, wsVars>>

Finish(p) ==
    /\ opc[p] = "finish"
    /\ pipeline_state' = next_state
    /\ pipeline_locked' = FALSE
    /\ runs' = SetRun(runs, orun[p], next_state)
    /\ opc' = [opc EXCEPT ![p] = IF approval_required THEN "done" ELSE "dispatch"]
    /\ dpc' = IF approval_required THEN dpc
              ELSE [dpc EXCEPT ![InlineDispatch(p)] = "start"]
    /\ UNCHANGED <<store, editVars, substVars, approval_required, approved_by, generated_content,
                   orun, stages, dispLocals, sendVars, restVars, wsVars>>

\* ExceptHandler with the lock left set
ExceptHandler_KeepsLock(p) ==
    /\ opc[p] = "except"
    /\ pipeline_state' = "FAILED"
    /\ runs' = [i \in 1..Len(runs) |->
                  [runs[i] EXCEPT !.state = "FAILED", !.error_message = TRUE]]
    /\ opc' = [opc EXCEPT ![p] = "failed"]
    /\ UNCHANGED <<store, editVars, substVars, pipeline_locked, approval_required, approved_by,
                   generated_content, orun, stages, dpc, dispLocals, sendVars,
                   restVars, wsVars>>

\* ExceptHandler that records the failure on the campaign only
ExceptHandler_CampaignOnly(p) ==
    /\ opc[p] = "except"
    /\ pipeline_state' = "FAILED"
    /\ pipeline_locked' = FALSE
    /\ opc' = [opc EXCEPT ![p] = "failed"]
    /\ UNCHANGED <<store, editVars, substVars, approval_required, approved_by, generated_content,
                   runs, orun, stages, dpc, dispLocals, sendVars, restVars, wsVars>>

\* lines 121-143: rollback, FAILED on the campaign and on the campaign's runs,
\* lock released
ExceptHandler(p) ==
    /\ opc[p] = "except"
    /\ pipeline_state' = "FAILED"
    /\ pipeline_locked' = FALSE
    /\ runs' = [i \in 1..Len(runs) |->
                  [runs[i] EXCEPT !.state = "FAILED", !.error_message = TRUE]]
    /\ opc' = [opc EXCEPT ![p] = "failed"]
    /\ UNCHANGED <<store, editVars, substVars, approval_required, approved_by, generated_content,
                   orun, stages, dpc, dispLocals, sendVars, restVars, wsVars>>

\* execute_pipeline over a database that answers every well-formed statement,
\* with the generator's classification drawn from F and its templates from G
pipeline_with(p, F, G) ==
    \/ LockCheck(p)
    \/ LockAndCreateRun(p)
    \/ \E result \in F, ok \in BOOLEAN : run_classification_agent(p, result, ok)
    \/ run_contact_retrieval_agent(p)
    \/ run_channel_decision_agent(p)
    \/ \E tpl \in G : run_content_generator_agent(p, tpl)
    \/ Finish(p)
    \/ ExceptHandler(p)

\* execute_pipeline with a generator that returns a template for each channel
pipeline_stages(p, F) == pipeline_with(p, F, {AllGenerated})

\* execute_pipeline where a stage may also fail for a cause outside it
execute_pipeline_with(p, F) ==
    \/ pipeline_stages(p, F)
    \/ \E stage \in {"retrieve", "decide", "generate"} : StageRaises(p, stage)

\* execute_pipeline with a generator that returns the empty filters
execute_pipeline(p) == execute_pipeline_with(p, {NoFilters})

\* the invocation has returned (the follow-on dispatch included)
Returned(p) ==
    \/ opc[p] \in {"skipped", "done", "failed"}
    \/ opc[p] = "dispatch" /\ dpc[InlineDispatch(p)] = "done"

\* the invocation is between acquiring the lock and releasing it
HoldsLock(p) ==
    opc[p] \in {"classify", "retrieve", "decide", "generate", "finish", "except"}

(***************************************************************************)
(* services/dispatch_service.py: _substitute                               *)
(* A template string is a sequence of pieces: literal text, or a bracketed *)
(* token [key]. A template is a string, a dict of templates, or any other  *)
(* JSON value.                                                             *)
(***************************************************************************)
Text(t) == [token |-> FALSE, text |-> t]

Token(key) == [token |-> TRUE, text |-> key]

\* the keys written between brackets
RawKeys ==
    {"Contact Name", " name ", "Company", "email_click_rate", "CTA_LINK",
     "Your Name", "First Name", "unsubscribe"}

Pieces == {Text("Hello")} \cup {Token(key) : key \in RawKeys}

\* line 47-48: key.strip().lower().replace(" ", "_")
Normalise(key) ==
    CASE key = "Contact Name" -> "contact_name"
      [] key = " name " -> "name"
      [] key = "Company" -> "company"
      [] key = "email_click_rate" -> "email_click_rate"
      [] key = "CTA_LINK" -> "cta_link"
      [] key = "Your Name" -> "your_name"
      [] key = "First Name" -> "first_name"
      [] key = "unsubscribe" -> "unsubscribe"

\* a NULL text column
NullText == "<NULL>"

\* value or ""
OrEmpty(v) == IF v = NullText THEN "" ELSE v

\* str(rate or ""): a NULL rate and the rate 0 are both falsy
RateText(rate) == IF rate = NULL \/ rate = 0 THEN "" ELSE ToString(rate)

\* the Contact row fetched for the email, or None
ContactRecord(n, r, co, t, e) ==
    [present |-> TRUE, name |-> n, role |-> r, company |-> co, email |-> "a@x.io",
     preferredtime |-> t, emailclickrate |-> e, linkedinclickrate |-> e,
     callanswerrate |-> e]

NoRecord ==
    [present |-> FALSE, name |-> NullText, role |-> NullText, company |-> NullText,
     email |-> NullText, preferredtime |-> NullText, emailclickrate |-> NULL,
     linkedinclickrate |-> NULL, callanswerrate |-> NULL]

ContactRecords ==
    {NoRecord,
     ContactRecord(NullText, NullText, NullText, NullText, NULL),
     ContactRecord("Ada", "CTO", "Acme", "9am", 0),
     ContactRecord("Ada", "CTO", "", "", 1)}

CampaignFields == [name : {"Launch"}, company : {NullText, "Xyndrix"},
                   product_link : {NullText, "https://x.io"}]

\* _replace with an unresolved token replaced by the empty string
_replace_Blank(piece, contact, campaign) ==
    LET k == Normalise(piece.text)
    IN  IF contact.present /\ k \in {"contact_name", "name"} THEN Text(OrEmpty(contact.name))
        ELSE IF contact.present /\ k \in {"contact_role", "role"} THEN Text(OrEmpty(contact.role))
        ELSE IF contact.present /\ k \in {"contact_company", "company"}
             THEN Text(OrEmpty(contact.company))
        ELSE IF contact.present /\ k = "email" THEN Text(OrEmpty(contact.email))
        ELSE IF contact.present /\ k = "preferred_time" THEN Text(OrEmpty(contact.preferredtime))
        ELSE IF contact.present /\ k = "email_click_rate"
             THEN Text(RateText(contact.emailclickrate))
        ELSE IF contact.present /\ k = "linkedin_click_rate"
             THEN Text(RateText(contact.linkedinclickrate))
        ELSE IF contact.present /\ k = "call_answer_rate"
             THEN Text(RateText(contact.callanswerrate))
        ELSE IF k \in {"product_link", "cta_link"} THEN Text(OrEmpty(campaign.product_link))
        ELSE IF k \in {"your_name", "sender", "from_name"} THEN Text("Xyndrix Team")
        ELSE IF k = "campaign_name" THEN Text(OrEmpty(campaign.name))
        ELSE IF k = "company" THEN Text(OrEmpty(campaign.company))
        ELSE Text("")

\* lines 46-69: the replacement of one token; an unresolved token is
\* returned as it stands
_replace(piece, contact, campaign) ==
    LET k == Normalise(piece.text)
    IN  IF contact.present /\ k \in {"contact_name", "name"} THEN Text(OrEmpty(contact.name))
        ELSE IF contact.present /\ k \in {"contact_role", "role"} THEN Text(OrEmpty(contact.role))
        ELSE IF contact.present /\ k \in {"contact_company", "company"}
             THEN Text(OrEmpty(contact.company))
        ELSE IF contact.present /\ k = "email" THEN Text(OrEmpty(contact.email))
        ELSE IF contact.present /\ k = "preferred_time" THEN Text(OrEmpty(contact.preferredtime))
        ELSE IF contact.present /\ k = "email_click_rate"
             THEN Text(RateText(contact.emailclickrate))
        ELSE IF contact.present /\ k = "linkedin_click_rate"
             THEN Text(RateText(contact.linkedinclickrate))
        ELSE IF contact.present /\ k = "call_answer_rate"
             THEN Text(RateText(contact.callanswerrate))
        ELSE IF k \in {"product_link", "cta_link"} THEN Text(OrEmpty(campaign.product_link))
        ELSE IF k \in {"your_name", "sender", "from_name"} THEN Text("Xyndrix Team")
        ELSE IF k = "campaign_name" THEN Text(OrEmpty(campaign.name))
        ELSE IF k = "company" THEN Text(OrEmpty(campaign.company))
        ELSE piece

\* lines 41-45 and 71: a dict is substituted value by value, a string token by
\* token, any other value is returned as it is
RECURSIVE _substitute(_, _, _)
_substitute(tmpl, contact, campaign) ==
    IF tmpl.kind = "dict"
    THEN [kind |-> "dict",
          fields |-> [f \in DOMAIN tmpl.fields |->
                        _substitute(tmpl.fields[f], contact, campaign)]]
    ELSE IF tmpl.kind = "str"
    THEN [kind |-> "str",
          pieces |-> [i \in 1..Len(tmpl.pieces) |->
                        IF tmpl.pieces[i].token
                        THEN _replace(tmpl.pieces[i], contact, campaign)
                        ELSE tmpl.pieces[i]]]
    ELSE tmpl

\* the call of _substitute (dispatch_service.py lines 144, 287, 346)
Substitute ==
    /\ rendered = NotRendered
    /\ template # NotRendered
    /\ rendered' = _substitute(template, subject.contact, subject.campaign)
    /\ UNCHANGED <<store, editVars, template, subject, pipeline_state, pipeline_locked,
                   approval_required, approved_by, generated_content, runs, orchVars,
                   dpc, dispLocals, sendVars, restVars, wsVars>>

(***************************************************************************)
(* services/dispatch_service.py: dispatch_campaign                         *)
(***************************************************************************)
Min(S) == CHOOSE x \in S : \A y \in S : x <= y

Row(id, c, ch, st, pid) ==
    [id |-> id, contact_email |-> c, channel |-> ch, send_status |-> st,
     provider_message_id |-> pid]

\* DispatchStart without the check of pipeline_state
DispatchStart_AnyState(d) ==
    /\ dpc[d] = "start"
    /\ IF /\ DOMAIN generated_content.contacts # {}
          /\ generated_content.common # {}
       THEN /\ dpc' = [dpc EXCEPT ![d] = "loop"]
            /\ dsnap' = [dsnap EXCEPT ![d] = generated_content]
            /\ dtodo' = [dtodo EXCEPT ![d] = DOMAIN generated_content.contacts]
       ELSE /\ dpc' = [dpc EXCEPT ![d] = "done"]
            /\ UNCHANGED <<dsnap, dtodo>>
    /\ UNCHANGED <<store, editVars, substVars, pipeline_state, pipeline_locked, approval_required,
                   approved_by, generated_content, runs, orchVars, dpending,
                   sendVars, restVars, wsVars>>

\* lines 79-107: the campaign must be APPROVED and its bundle must have a
\* "contacts" map and templates; otherwise the call returns
DispatchStart(d) ==
    /\ dpc[d] = "start"
    /\ IF /\ pipeline_state = "APPROVED"
          /\ DOMAIN generated_content.contacts # {}
          /\ generated_content.common # {}
       THEN /\ dpc' = [dpc EXCEPT ![d] = "loop"]
            /\ dsnap' = [dsnap EXCEPT ![d] = generated_content]
            /\ dtodo' = [dtodo EXCEPT ![d] = DOMAIN generated_content.contacts]
       ELSE /\ dpc' = [dpc EXCEPT ![d] = "done"]
            /\ UNCHANGED <<dsnap, dtodo>>
    /\ UNCHANGED <<store, editVars, substVars, pipeline_state, pipeline_locked, approval_required,
                   approved_by, generated_content, runs, orchVars, dpending,
                   sendVars, restVars, wsVars>>

\* AlreadySent with the rows of every session visible before their commit
AlreadySent_Shared(d, c, ch) ==
    \E r \in outbound \cup UNION {dpending[e] : e \in Dispatchers} :
        /\ r.contact_email = c
        /\ r.channel = ch
        /\ r.send_status = "SENT"

\* lines 116-126: a SENT row of this tuple, committed or added by this session
AlreadySent(d, c, ch) ==
    \E r \in outbound \cup dpending[d] :
        /\ r.contact_email = c
        /\ r.channel = ch
        /\ r.send_status = "SENT"

\* the contact is skipped without a row: no template for its channel or an
\* empty one, or a Call without a contact record or without a phone number
Skipped(d, c, ch) ==
    \/ ch \notin dsnap[d].common
    \/ ch \in dsnap[d].common /\ dsnap[d].templates[ch] = "empty"
    \/ ch = "Call" /\ ~store[c].present
    \/ ch = "Call" /\ ~HasPhone(store[c])

\* the mail or voice provider is called for the tuple
ProviderCall(c, ch, ok) ==
    /\ ncalls' = ncalls + 1
    /\ accepted' = IF ok THEN accepted \cup {<<c, ch>>} ELSE accepted
    /\ resent' = IF <<c, ch>> \in accepted THEN resent \cup {<<c, ch>>} ELSE resent

\* DispatchContact with a failed provider call ending dispatch_campaign
DispatchContact_AbortOnFailure(d) ==
    /\ dpc[d] = "loop"
    /\ dtodo[d] # {}
    /\ LET c == Min(dtodo[d])
           ch == dsnap[d].contacts[c]
       IN  /\ dtodo' = [dtodo EXCEPT ![d] = @ \ {c}]
           /\ IF AlreadySent(d, c, ch) \/ Skipped(d, c, ch)
              THEN UNCHANGED <<dpc, dpending, nrows, sent_events, ncalls, accepted, resent>>
              ELSE IF ch = "LinkedIn"
              THEN /\ dpending' = [dpending EXCEPT ![d] =
                                     @ \cup {Row(nrows + 1, c, ch, "SENT", 0)}]
                   /\ nrows' = nrows + 1
                   /\ sent_events' = sent_events + 1
                   /\ UNCHANGED <<dpc, ncalls, accepted, resent>>
              ELSE \E ok \in BOOLEAN :
                   /\ ProviderCall(c, ch, ok)
                   /\ IF ok
                      THEN /\ dpending' = [dpending EXCEPT ![d] =
                                             @ \cup {Row(nrows + 1, c, ch, "SENT", ncalls + 1)}]
                           /\ nrows' = nrows + 1
                           /\ sent_events' = sent_events + 1
                           /\ UNCHANGED dpc
                      ELSE /\ dpending' = [dpending EXCEPT ![d] = {}]
                           /\ dpc' = [dpc EXCEPT ![d] = "done"]
                           /\ UNCHANGED <<nrows, sent_events>>
    /\ UNCHANGED <<store, editVars, substVars, pipeline_state, pipeline_locked, approval_required,
                   approved_by, generated_content, runs, orchVars,
                   dsnap, outbound, restVars, wsVars>>

\* lines 112-369: one iteration of the loop over contact_emails
DispatchContact(d) ==
    /\ dpc[d] = "loop"
    /\ dtodo[d] # {}
    /\ LET c == Min(dtodo[d])
           ch == dsnap[d].contacts[c]
       IN  /\ dtodo' = [dtodo EXCEPT ![d] = @ \ {c}]
           /\ IF AlreadySent(d, c, ch) \/ Skipped(d, c, ch)
              THEN UNCHANGED <<dpending, nrows, sent_events, ncalls, accepted, resent>>
              ELSE IF ch = "LinkedIn"
              THEN /\ dpending' = [dpending EXCEPT ![d] =
                                     @ \cup {Row(nrows + 1, c, ch, "SENT", 0)}]
                   /\ nrows' = nrows + 1
                   /\ sent_events' = sent_events + 1
                   /\ UNCHANGED <<ncalls, accepted, resent>>
              ELSE \E ok \in BOOLEAN :
                   /\ ProviderCall(c, ch, ok)
                   /\ dpending' = [dpending EXCEPT ![d] =
                                     @ \cup {Row(nrows + 1, c, ch,
                                                 IF ok THEN "SENT" ELSE "FAILED",
                                                 IF ok THEN ncalls + 1 ELSE 0)}]
                   /\ nrows' = nrows + 1
                   /\ sent_events' = sent_events + 1
    /\ UNCHANGED <<store, editVars, substVars, pipeline_state, pipeline_locked, approval_required,
                   approved_by, generated_content, runs, orchVars, dpc,
                   dsnap, outbound, restVars, wsVars>>

\* lines 371-376: DISPATCHED, and the commit that persists the rows
DispatchDispatched(d) ==
    /\ dpc[d] = "loop"
    /\ dtodo[d] = {}
    /\ pipeline_state' = "DISPATCHED"
    /\ outbound' = outbound \cup dpending[d]
    /\ dpending' = [dpending EXCEPT ![d] = {}]
    /\ dpc' = [dpc EXCEPT ![d] = "dispatched"]
    /\ UNCHANGED <<store, editVars, substVars, pipeline_locked, approval_required, approved_by,
                   generated_content, runs, orchVars, dsnap, dtodo,
                   nrows, sent_events, ncalls, accepted, resent, restVars, wsVars>>

\* lines 378-386: COMPLETED on the campaign and on the campaign's runs
DispatchCompleted(d) ==
    /\ dpc[d] = "dispatched"
    /\ pipeline_state' = "COMPLETED"
    /\ runs' = SetAllRuns(runs, "COMPLETED")
    /\ dpc' = [dpc EXCEPT ![d] = "done"]
    /\ UNCHANGED <<store, editVars, substVars, pipeline_locked, approval_required, approved_by,
                   generated_content, orchVars, dispLocals, sendVars, restVars, wsVars>>

\* an exception leaves dispatch_campaign: at the first query (line 80), inside
\* the loop outside its try blocks (lines 116-124, 144-151), or at the writes
\* after the first commit (lines 378-386). The session is closed without a
\* commit and the rows added to it are gone; raised inside execute_pipeline
\* (pipeline_runner.py 115-119) the exception reaches its except clause
DispatchRaises(d) ==
    /\ dpc[d] \in {"start", "loop", "dispatched"}
    /\ dpc' = [dpc EXCEPT ![d] = "raised"]
    /\ dpending' = [dpending EXCEPT ![d] = {}]
    /\ opc' = [p \in Invocations |->
                 IF d = InlineDispatch(p) /\ opc[p] = "dispatch" THEN "except" ELSE opc[p]]
    /\ UNCHANGED <<store, editVars, substVars, pipeline_state, pipeline_locked,
                   approval_required, approved_by, generated_content, runs, orun, stages,
                   dsnap, dtodo, sendVars, restVars, wsVars>>

dispatch_campaign(d) ==
    \/ DispatchStart(d)
    \/ DispatchContact(d)
    \/ DispatchDispatched(d)
    \/ DispatchCompleted(d)

(***************************************************************************)
(* api/campaigns.py                                                        *)
(***************************************************************************)
\* send_preview, lines 523-610: no check of pipeline_state; the Email template
\* is mailed to the contact and the send is recorded
send_preview(c, ok) ==
    /\ npreview < MaxPreview
    /\ npreview' = npreview + 1
    /\ LET channel == IF c \in DOMAIN generated_content.contacts
                      THEN generated_content.contacts[c] ELSE "Email"
       IN  IF channel # "Email"
           THEN UNCHANGED sendVars
           ELSE /\ ProviderCall(c, "Email", ok)
                /\ outbound' = outbound \cup
                       {Row(nrows + 1, c, "Email",
                            IF ok THEN "SENT" ELSE "FAILED",
                            IF ok THEN ncalls + 1 ELSE 0)}
                /\ nrows' = nrows + 1
                /\ sent_events' = sent_events + 1
    /\ UNCHANGED <<store, editVars, substVars, pipeline_state, pipeline_locked, approval_required,
                   approved_by, generated_content, runs, orchVars, dpc, dispLocals,
                   apc, gpc, wsVars>>

\* ApproveCheck without the check of pipeline_state
ApproveCheck_AnyState(known) ==
    /\ apc = "idle"
    /\ apc' = IF ~known THEN "NOT_FOUND" ELSE "write"
    /\ UNCHANGED <<store, editVars, substVars, pipeline_state, pipeline_locked, approval_required,
                   approved_by, generated_content, runs, orchVars, dpc, dispLocals,
                   sendVars, gpc, npreview, wsVars>>

\* approve_campaign, lines 381-388: a request for an unknown campaign id is
\* answered NOT_FOUND, one for a campaign not AWAITING_APPROVAL INVALID_STATE
ApproveCheck(known) ==
    /\ apc = "idle"
    /\ apc' = IF ~known THEN "NOT_FOUND"
              ELSE IF pipeline_state = "AWAITING_APPROVAL" THEN "write"
              ELSE "INVALID_STATE"
    /\ UNCHANGED <<store, editVars, substVars, pipeline_state, pipeline_locked, approval_required,
                   approved_by, generated_content, runs, orchVars, dpc, dispLocals,
                   sendVars, gpc, npreview, wsVars>>

\* approve_campaign, lines 389-399: APPROVED with the approver, then the
\* dispatch background task
ApproveWrite ==
    /\ apc = "write"
    /\ pipeline_state' = "APPROVED"
    /\ approved_by' = "rest"
    /\ apc' = "done"
    /\ dpc' = [dpc EXCEPT ![ApproveDispatch] = "start"]
    /\ UNCHANGED <<store, editVars, substVars, pipeline_locked, approval_required, generated_content,
                   runs, orchVars, dispLocals, sendVars, gpc, npreview, wsVars>>

approve_campaign ==
    \/ \E known \in BOOLEAN : ApproveCheck(known)
    \/ ApproveWrite

\* the states in which content may be edited (campaigns.py lines 211, 251)
Editable == {"CONTENT_GENERATED", "AWAITING_APPROVAL"}

\* edit_common_content, lines 244-261: the request reads the campaign row,
\* checks the state and that the channel has an entry under "common", and
\* copies the bundle
EditCommonRead(r, known, channel, content) ==
    /\ epc[r] = "idle"
    /\ UNCHANGED ekey
    /\ IF ~known
       THEN /\ epc' = [epc EXCEPT ![r] = "NOT_FOUND"]
            /\ UNCHANGED <<ecopy, etarget, econtent>>
       ELSE IF pipeline_state \notin Editable
       THEN /\ epc' = [epc EXCEPT ![r] = "INVALID_STATE"]
            /\ UNCHANGED <<ecopy, etarget, econtent>>
       ELSE IF channel \notin generated_content.common
       THEN /\ epc' = [epc EXCEPT ![r] = "CHANNEL_NOT_FOUND"]
            /\ UNCHANGED <<ecopy, etarget, econtent>>
       ELSE /\ epc' = [epc EXCEPT ![r] = "write"]
            /\ ecopy' = [ecopy EXCEPT ![r] = generated_content]
            /\ etarget' = [etarget EXCEPT ![r] = channel]
            /\ econtent' = [econtent EXCEPT ![r] = content]
    /\ UNCHANGED <<store, substVars, pipeline_state, pipeline_locked, approval_required,
                   approved_by, generated_content, runs, orchVars, dpc, dispLocals,
                   sendVars, restVars, wsVars>>

\* edit_contact_content, lines 203-228: the request reads the campaign row,
\* checks the state, looks the contact up in the "contacts" map of the bundle
\* and takes the contact's channel from it
EditContactRead(r, known, c, content) ==
    /\ epc[r] = "idle"
    /\ ekey' = [ekey EXCEPT ![r] = c]
    /\ IF ~known
       THEN /\ epc' = [epc EXCEPT ![r] = "NOT_FOUND"]
            /\ UNCHANGED <<ecopy, etarget, econtent>>
       ELSE IF pipeline_state \notin Editable
       THEN /\ epc' = [epc EXCEPT ![r] = "INVALID_STATE"]
            /\ UNCHANGED <<ecopy, etarget, econtent>>
       ELSE IF c \notin DOMAIN generated_content.contacts
       THEN /\ epc' = [epc EXCEPT ![r] = "CONTACT_NOT_FOUND"]
            /\ UNCHANGED <<ecopy, etarget, econtent>>
       ELSE /\ epc' = [epc EXCEPT ![r] = "write"]
            /\ ecopy' = [ecopy EXCEPT ![r] = generated_content]
            /\ etarget' = [etarget EXCEPT ![r] = generated_content.contacts[c]]
            /\ econtent' = [econtent EXCEPT ![r] = content]
    /\ UNCHANGED <<store, substVars, pipeline_state, pipeline_locked, approval_required,
                   approved_by, generated_content, runs, orchVars, dpc, dispLocals,
                   sendVars, restVars, wsVars>>

\* the copy of a bundle with the template of a channel replaced
WithTemplate(bundle, channel, content) ==
    [bundle EXCEPT
        !.keys = @ \cup {"common"},
        !.common = @ \cup {channel},
        !.templates = [ch \in bundle.common \cup {channel} |->
                         IF ch = channel THEN content ELSE bundle.templates[ch]]]

\* lines 224-231 and 262-266: the payload is stored under the channel in the
\* copy, and the copy is written over Campaign.generated_content
EditWrite(r) ==
    /\ epc[r] = "write"
    /\ generated_content' = WithTemplate(ecopy[r], etarget[r], econtent[r])
    /\ epc' = [epc EXCEPT ![r] = "done"]
    /\ ecopy' = [ecopy EXCEPT ![r] = NoContent]
    /\ UNCHANGED <<store, substVars, pipeline_state, pipeline_locked, approval_required,
                   approved_by, runs, orchVars, dpc, dispLocals, sendVars, restVars,
                   wsVars, etarget, econtent, ekey>>

edit_common_content(r) ==
    \/ \E known \in BOOLEAN, channel \in Channels, content \in {"empty", "edited"} :
          EditCommonRead(r, known, channel, content)
    \/ EditWrite(r)

edit_contact_content(r) ==
    \/ \E known \in BOOLEAN, c \in Contacts, content \in {"empty", "edited"} :
          EditContactRead(r, known, c, content)
    \/ EditWrite(r)

\* regenerate_content, lines 413-460: the request checks the state and that a
\* run exists, and schedules _run_regen
RegenCheck ==
    /\ gpc = "idle"
    /\ gpc' = IF /\ pipeline_state \in {"CONTENT_GENERATED", "AWAITING_APPROVAL", "FAILED"}
                 /\ Len(runs) > 0
              THEN "scheduled" ELSE "rejected"
    /\ UNCHANGED <<store, editVars, substVars, pipeline_state, pipeline_locked, approval_required,
                   approved_by, generated_content, runs, orchVars, dpc, dispLocals,
                   sendVars, apc, npreview, wsVars>>

\* RegenGenerate recording a failed generation as FAILED on the campaign
RegenGenerate_Fails(ok) ==
    /\ gpc = "scheduled"
    /\ Len(runs) > 0
    /\ IF ok
       THEN /\ generated_content' = GeneratedBundle(runs[Len(runs)], AllGenerated)
            /\ runs' = SetRun(runs, Len(runs), "CONTENT_GENERATED")
            /\ pipeline_state' = "CONTENT_GENERATED"
            /\ gpc' = "generated"
       ELSE /\ gpc' = "raised"
            /\ pipeline_state' = "FAILED"
            /\ UNCHANGED <<generated_content, runs>>
    /\ UNCHANGED <<store, editVars, substVars, pipeline_locked, approval_required, approved_by,
                   orchVars, dpc, dispLocals, sendVars, apc, npreview, wsVars>>

\* _run_regen, lines 441-450: the content generator runs on the latest
\* pipeline_run and persists CONTENT_GENERATED, or raises and ends the task
RegenGenerate(ok) ==
    /\ gpc = "scheduled"
    /\ Len(runs) > 0
    /\ IF ok
       THEN /\ generated_content' = GeneratedBundle(runs[Len(runs)], AllGenerated)
            /\ runs' = [runs EXCEPT ![Len(runs)].content_log = "SUCCESS",
                                    ![Len(runs)].state = "CONTENT_GENERATED"]
            /\ pipeline_state' = "CONTENT_GENERATED"
            /\ gpc' = "generated"
       ELSE /\ gpc' = "raised"
            /\ runs' = [runs EXCEPT ![Len(runs)].content_log = "FAILED"]
            /\ UNCHANGED <<generated_content, pipeline_state>>
    /\ UNCHANGED <<store, editVars, substVars, pipeline_locked, approval_required, approved_by,
                   orchVars, dpc, dispLocals, sendVars, apc, npreview, wsVars>>

\* _run_regen, lines 451-457: the state written after regeneration
RegenSetState ==
    /\ gpc = "generated"
    /\ pipeline_state' = IF approval_required THEN "AWAITING_APPROVAL"
                         ELSE "CONTENT_GENERATED"
    /\ gpc' = "done"
    /\ UNCHANGED <<store, editVars, substVars, pipeline_locked, approval_required, approved_by,
                   generated_content, runs, orchVars, dpc, dispLocals, sendVars,
                   apc, npreview, wsVars>>

regenerate_content ==
    \/ RegenCheck
    \/ \E ok \in BOOLEAN : RegenGenerate(ok)
    \/ RegenSetState

(***************************************************************************)
(* api/websocket.py: campaign_approval_ws                                  *)
(***************************************************************************)
\* lines 61-83: the items put under review are the entries of "personalized",
\* or without that key the top-level keys other than "common"
ReviewItems(bundle) ==
    IF "personalized" \in bundle.keys
    THEN Cardinality(DOMAIN bundle.personalized)
    ELSE Cardinality(bundle.keys \ {"common", "personalized"})

\* lines 44-91: a session for an unknown campaign id is answered NOT_FOUND and
\* closed, one for a campaign not AWAITING_APPROVAL INVALID_STATE and closed;
\* otherwise the items under review are collected
WsOpen(s, known) ==
    /\ wpc[s] = "idle"
    /\ IF ~known
       THEN /\ wpc' = [wpc EXCEPT ![s] = "NOT_FOUND"]
            /\ wsent' = [wsent EXCEPT ![s] = "NOT_FOUND"]
            /\ UNCHANGED wpending
       ELSE IF pipeline_state # "AWAITING_APPROVAL"
       THEN /\ wpc' = [wpc EXCEPT ![s] = "INVALID_STATE"]
            /\ wsent' = [wsent EXCEPT ![s] = "INVALID_STATE"]
            /\ UNCHANGED wpending
       ELSE /\ wpending' = [wpending EXCEPT ![s] = ReviewItems(generated_content)]
            /\ wpc' = [wpc EXCEPT ![s] =
                         IF ReviewItems(generated_content) = 0 THEN "closeout" ELSE "review"]
            /\ wsent' = [wsent EXCEPT ![s] =
                           IF ReviewItems(generated_content) = 0 THEN "APPROVAL_START"
                           ELSE "CONTACT_CONTENT"]
    /\ UNCHANGED <<store, editVars, substVars, pipeline_state, pipeline_locked, approval_required,
                   approved_by, generated_content, runs, orchVars, dpc, dispLocals,
                   sendVars, restVars>>

\* lines 129-136: approve the item under review and acknowledge it; the
\* acknowledgement raises when the client has gone (lines 275-287)
WsApprove(s, delivered) ==
    /\ wpc[s] = "review"
    /\ IF delivered
       THEN /\ wpending' = [wpending EXCEPT ![s] = @ - 1]
            /\ wpc' = [wpc EXCEPT ![s] = IF wpending[s] = 1 THEN "closeout" ELSE "review"]
            /\ wsent' = [wsent EXCEPT ![s] =
                           IF wpending[s] = 1 THEN "APPROVED" ELSE "CONTACT_CONTENT"]
       ELSE /\ wpc' = [wpc EXCEPT ![s] = "disconnected"]
            /\ UNCHANGED <<wpending, wsent>>
    /\ UNCHANGED <<store, editVars, substVars, pipeline_state, pipeline_locked, approval_required,
                   approved_by, generated_content, runs, orchVars, dpc, dispLocals,
                   sendVars, restVars>>

\* WsApproveAll approving the item under review only
WsApproveAll_One(s, delivered) ==
    /\ wpc[s] = "review"
    /\ IF delivered
       THEN /\ wpending' = [wpending EXCEPT ![s] = @ - 1]
            /\ wpc' = [wpc EXCEPT ![s] = IF wpending[s] = 1 THEN "closeout" ELSE "review"]
            /\ wsent' = [wsent EXCEPT ![s] = "ALL_APPROVED"]
       ELSE /\ wpc' = [wpc EXCEPT ![s] = "disconnected"]
            /\ UNCHANGED <<wpending, wsent>>
    /\ UNCHANGED <<store, editVars, substVars, pipeline_state, pipeline_locked, approval_required,
                   approved_by, generated_content, runs, orchVars, dpc, dispLocals,
                   sendVars, restVars>>

\* lines 138-146 and 235-236: approve every pending item and acknowledge it
WsApproveAll(s, delivered) ==
    /\ wpc[s] = "review"
    /\ IF delivered
       THEN /\ wpending' = [wpending EXCEPT ![s] = 0]
            /\ wpc' = [wpc EXCEPT ![s] = "closeout"]
            /\ wsent' = [wsent EXCEPT ![s] = "ALL_APPROVED"]
       ELSE /\ wpc' = [wpc EXCEPT ![s] = "disconnected"]
            /\ UNCHANGED <<wpending, wsent>>
    /\ UNCHANGED <<store, editVars, substVars, pipeline_state, pipeline_locked, approval_required,
                   approved_by, generated_content, runs, orchVars, dpc, dispLocals,
                   sendVars, restVars>>

\* WsDisconnect with the session going on to its close-out
WsDisconnect_ClosesOut(s) ==
    /\ wpc[s] = "review"
    /\ wpc' = [wpc EXCEPT ![s] = "closeout"]
    /\ UNCHANGED <<store, editVars, substVars, pipeline_state, pipeline_locked, approval_required,
                   approved_by, generated_content, runs, orchVars, dpc, dispLocals,
                   sendVars, restVars, wpending, wsent>>

\* lines 116-122: the client disconnects while an item is under review
WsDisconnect(s) ==
    /\ wpc[s] = "review"
    /\ wpc' = [wpc EXCEPT ![s] = "disconnected"]
    /\ UNCHANGED <<store, editVars, substVars, pipeline_state, pipeline_locked, approval_required,
                   approved_by, generated_content, runs, orchVars, dpc, dispLocals,
                   sendVars, restVars, wpending, wsent>>

\* WsCloseOut without the approver
WsCloseOut_NoApprover(s) ==
    /\ wpc[s] = "closeout"
    /\ pipeline_state' = "APPROVED"
    /\ runs' = SetAllRuns(runs, "APPROVED")
    /\ wpc' = [wpc EXCEPT ![s] = "confirm"]
    /\ UNCHANGED <<store, editVars, substVars, pipeline_locked, approval_required, approved_by,
                   generated_content, orchVars, dpc, dispLocals, sendVars,
                   restVars, wpending, wsent>>

\* lines 238-254: APPROVED with the approver on the campaign, APPROVED on the
\* campaign's runs, committed
WsCloseOut(s) ==
    /\ wpc[s] = "closeout"
    /\ pipeline_state' = "APPROVED"
    /\ approved_by' = "ws"
    /\ runs' = SetAllRuns(runs, "APPROVED")
    /\ wpc' = [wpc EXCEPT ![s] = "confirm"]
    /\ UNCHANGED <<store, editVars, substVars, pipeline_locked, approval_required, generated_content,
                   orchVars, dpc, dispLocals, sendVars, restVars, wpending, wsent>>

\* lines 256-287: the CAMPAIGN_APPROVED event is sent and then the dispatch
\* task is created; when the client has gone the send raises and control
\* passes to the except clauses, past the creation of the task
WsConfirm(s, delivered) ==
    /\ wpc[s] = "confirm"
    /\ IF delivered
       THEN /\ dpc' = [dpc EXCEPT ![SessionDispatch(s)] = "start"]
            /\ wpc' = [wpc EXCEPT ![s] = "approved"]
            /\ wsent' = [wsent EXCEPT ![s] = "CAMPAIGN_APPROVED"]
       ELSE /\ wpc' = [wpc EXCEPT ![s] = "aborted"]
            /\ UNCHANGED <<dpc, wsent>>
    /\ UNCHANGED <<store, editVars, substVars, pipeline_state, pipeline_locked, approval_required,
                   approved_by, generated_content, runs, orchVars, dispLocals,
                   sendVars, restVars, wpending>>

\* lines 148-166: the edit action assigns to generated_content[contact_email],
\* or with no edited content reads it for the reply; the bundle's keys are
\* "common" and "personalized", the lookup raises KeyError, and the session
\* ends with INTERNAL_ERROR (lines 277-287) without a write
WsEdit(s) ==
    /\ wpc[s] = "review"
    /\ "personalized" \in generated_content.keys
    /\ wpc' = [wpc EXCEPT ![s] = "INTERNAL_ERROR"]
    /\ wsent' = [wsent EXCEPT ![s] = "INTERNAL_ERROR"]
    /\ UNCHANGED <<store, editVars, substVars, pipeline_state, pipeline_locked,
                   approval_required, approved_by, generated_content, runs, orchVars,
                   dpc, dispLocals, sendVars, restVars, wpending>>

\* lines 168-224: the regenerate action reads generated_content[contact_email]
\* for the channel (line 181) or for the reply (line 219) outside the try of
\* line 203, which raises KeyError in the same way
WsRegenerate(s) ==
    /\ wpc[s] = "review"
    /\ "personalized" \in generated_content.keys
    /\ wpc' = [wpc EXCEPT ![s] = "INTERNAL_ERROR"]
    /\ wsent' = [wsent EXCEPT ![s] = "INTERNAL_ERROR"]
    /\ UNCHANGED <<store, editVars, substVars, pipeline_state, pipeline_locked,
                   approval_required, approved_by, generated_content, runs, orchVars,
                   dpc, dispLocals, sendVars, restVars, wpending>>

\* WsUnknown answered like an approve action
WsUnknown_Approves(s, delivered) ==
    /\ wpc[s] = "review"
    /\ IF delivered
       THEN /\ wpending' = [wpending EXCEPT ![s] = @ - 1]
            /\ wpc' = [wpc EXCEPT ![s] = IF wpending[s] = 1 THEN "closeout" ELSE "review"]
            /\ wsent' = [wsent EXCEPT ![s] = "UNKNOWN_ACTION"]
       ELSE /\ wpc' = [wpc EXCEPT ![s] = "disconnected"]
            /\ UNCHANGED <<wpending, wsent>>
    /\ UNCHANGED <<store, editVars, substVars, pipeline_state, pipeline_locked, approval_required,
                   approved_by, generated_content, runs, orchVars, dpc, dispLocals,
                   sendVars, restVars>>

\* lines 127 and 228-232: a message whose action is none of approve,
\* approve_all, edit and regenerate is answered with the error UNKNOWN_ACTION
\* and the loop waits for the next message on the same item
WsUnknown(s, delivered) ==
    /\ wpc[s] = "review"
    /\ IF delivered
       THEN /\ wsent' = [wsent EXCEPT ![s] = "UNKNOWN_ACTION"]
            /\ UNCHANGED wpc
       ELSE /\ wpc' = [wpc EXCEPT ![s] = "disconnected"]
            /\ UNCHANGED wsent
    /\ UNCHANGED <<store, editVars, substVars, pipeline_state, pipeline_locked, approval_required,
                   approved_by, generated_content, runs, orchVars, dpc, dispLocals,
                   sendVars, restVars, wpending>>

campaign_approval_ws(s) ==
    \/ \E known \in BOOLEAN : WsOpen(s, known)
    \/ \E delivered \in BOOLEAN : WsApprove(s, delivered)
    \/ \E delivered \in BOOLEAN : WsApproveAll(s, delivered)
    \/ WsDisconnect(s)
    \/ WsCloseOut(s)
    \/ \E delivered \in BOOLEAN : WsConfirm(s, delivered)

(***************************************************************************)
(* api/tracking.py: sendgrid_webhook                                       *)
(***************************************************************************)
\* the event types SendGrid reports for an accepted message
EventStatus == {"DELIVERED", "OPEN"}

\* lines 154-164: every row whose provider_message_id matches the event's
\* message id gets the upper-cased event type as its send_status
sendgrid_webhook(message_id, status) ==
    /\ message_id > 0
    /\ \E r \in outbound : r.provider_message_id = message_id /\ r.send_status # status
    /\ outbound' = {IF r.provider_message_id = message_id
                    THEN [r EXCEPT !.send_status = status] ELSE r : r \in outbound}
    /\ UNCHANGED <<store, editVars, substVars, pipeline_state, pipeline_locked, approval_required,
                   approved_by, generated_content, runs, orchVars, dpc, dispLocals,
                   nrows, sent_events, ncalls, accepted, resent, restVars, wsVars>>

(***************************************************************************)
(* worker/ai_tasks.py: run_dispatch                                        *)
(***************************************************************************)
\* a queued run_dispatch task calls dispatch_campaign
run_dispatch(d) ==
    /\ dpc[d] = "idle"
    /\ dpc' = [dpc EXCEPT ![d] = "start"]
    /\ UNCHANGED <<store, editVars, substVars, pipeline_state, pipeline_locked, approval_required,
                   approved_by, generated_content, runs, orchVars, dispLocals,
                   sendVars, restVars, wsVars>>

(***************************************************************************)
(* Spec: a campaign from create_campaign on, with concurrent               *)
(* execute_pipeline invocations                                            *)
(***************************************************************************)
Next ==
    \/ \E p \in Invocations : execute_pipeline(p)
    \/ \E p \in Invocations : DispatchStart(InlineDispatch(p))

Spec == Init /\ [][Next]_vars

(***************************************************************************)
(* SpecReview: a campaign from create_campaign on, with one execute_pipeline *)
(* invocation, the reviewers' requests and the dispatch tasks they start   *)
(***************************************************************************)
NextReview ==
    \/ execute_pipeline(1)
    \/ \E d \in {InlineDispatch(1), ApproveDispatch} \cup {SessionDispatch(s) : s \in Sessions} :
          DispatchStart(d)
    \/ approve_campaign
    \/ regenerate_content
    \/ \E s \in Sessions : campaign_approval_ws(s)
    \/ \E c \in Contacts, ok \in BOOLEAN : send_preview(c, ok)

SpecReview == Init /\ [][NextReview]_vars

(***************************************************************************)
(* SpecDispatch: a campaign row awaiting approval whose generated_content  *)
(* has the shape dispatch_campaign reads (dispatch_service.py lines 1-13:  *)
(* templates under "common", the email -> channel map under "contacts"),   *)
(* with the reviewers' approvals, dispatch invocations that do not overlap *)
(* and the delivery events of the mail provider                            *)
(***************************************************************************)
\* generated_content of the shape {"common": ..., "contacts": ...}
DispatchBundles ==
    {[keys |-> {"common", "contacts"}, common |-> t,
      templates |-> [ch \in t |-> "generated"], contacts |-> m,
      personalized |-> EmptyMap] :
        t \in SUBSET Channels,
        m \in UNION {[1..n -> Channels] : n \in 0..MaxContacts}}

\* the campaign row and its pipeline_run in the given state
StoredCampaign(st) ==
    /\ store \in Stores
    /\ pipeline_state = st
    /\ pipeline_locked = FALSE
    /\ approval_required = TRUE
    /\ generated_content \in DispatchBundles
    /\ runs = <<[NewRun EXCEPT !.state = st]>>
    /\ Idle

InitDispatch ==
    /\ StoredCampaign("AWAITING_APPROVAL")
    /\ approved_by = ""

\* no other dispatch_campaign invocation is inside its loop
NoOverlap(d) == \A e \in Dispatchers \ {d} : dpc[e] \notin {"loop", "dispatched"}

\* message ids the provider has handed out
MessageIds == {r.provider_message_id : r \in outbound} \ {0}

NextDispatch ==
    \/ approve_campaign
    \/ \E s \in Sessions : campaign_approval_ws(s)
    \/ \E d \in {ApproveDispatch} \cup {SessionDispatch(s) : s \in Sessions} :
          NoOverlap(d) /\ dispatch_campaign(d)
    \/ \E m \in MessageIds, st \in EventStatus : sendgrid_webhook(m, st)

SpecDispatch == InitDispatch /\ [][NextDispatch]_vars

(***************************************************************************)
(* SpecTwice: an APPROVED campaign row of that shape on which              *)
(* dispatch_campaign is called by run_dispatch tasks one after the other   *)
(***************************************************************************)
InitTwice ==
    /\ StoredCampaign("APPROVED")
    /\ approved_by = "rest"

\* the run_dispatch tasks queued before d have returned
InSequence(d) == \A e \in CeleryDispatch : e < d => dpc[e] = "done"

NextTwice ==
    \/ \E d \in CeleryDispatch : InSequence(d) /\ run_dispatch(d)
    \/ \E d \in CeleryDispatch : dispatch_campaign(d)

SpecTwice == InitTwice /\ [][NextTwice]_vars

(***************************************************************************)
(* SpecConcurrent: the APPROVED campaign row with run_dispatch tasks that  *)
(* run at the same time                                                    *)
(***************************************************************************)
NextConcurrent ==
    \/ \E d \in CeleryDispatch : run_dispatch(d)
    \/ \E d \in CeleryDispatch : dispatch_campaign(d)

SpecConcurrent == InitTwice /\ [][NextConcurrent]_vars

(***************************************************************************)
(* SpecRetry: the APPROVED campaign row with a run_dispatch task that may  *)
(* raise and is then run again (ai_tasks.py line 52)                       *)
(***************************************************************************)
\* the earlier runs of the task have returned or raised
AfterEarlier(d) == \A e \in CeleryDispatch : e < d => dpc[e] \in {"done", "raised"}

NextRetry ==
    \/ \E d \in CeleryDispatch : AfterEarlier(d) /\ run_dispatch(d)
    \/ \E d \in CeleryDispatch : dispatch_campaign(d)
    \/ \E d \in CeleryDispatch : DispatchRaises(d)

SpecRetry == InitTwice /\ [][NextRetry]_vars

(***************************************************************************)
(* SpecAuto: a fresh campaign without approval, one execute_pipeline and   *)
(* its follow-on dispatch, which may raise                                 *)
(***************************************************************************)
InitAuto ==
    /\ store \in Stores
    /\ pipeline_state = "CREATED"
    /\ pipeline_locked = FALSE
    /\ approval_required = FALSE
    /\ approved_by = ""
    /\ generated_content = NoContent
    /\ runs = <<>>
    /\ Idle

NextAuto ==
    \/ pipeline_stages(1, {NoFilters})
    \/ DispatchStart(InlineDispatch(1))
    \/ DispatchRaises(InlineDispatch(1))

SpecAuto == InitAuto /\ [][NextAuto]_vars

(***************************************************************************)
(* SpecDecide: a fresh campaign over a store of one contact with every     *)
(* combination of the three engagement scores, and one execute_pipeline    *)
(***************************************************************************)
\* the largest engagement score of the combinations
MaxScore == 2

Scores == {NULL} \cup 0..MaxScore

ScoredProfiles == {Profile(e, l, c) : e \in Scores, l \in Scores, c \in Scores}

InitDecide ==
    /\ store \in {st \in [Contacts -> ScoredProfiles \cup {NoContact}] :
                    st[1].present /\ \A c \in Contacts \ {1} : ~st[c].present}
    /\ pipeline_state = "CREATED"
    /\ pipeline_locked = FALSE
    /\ approval_required = TRUE
    /\ approved_by = ""
    /\ generated_content = NoContent
    /\ runs = <<>>
    /\ Idle

NextDecide == execute_pipeline(1)

SpecDecide == InitDecide /\ [][NextDecide]_vars

(***************************************************************************)
(* SpecRetrieve: a fresh campaign and one execute_pipeline whose generator *)
(* may return any classification                                           *)
(***************************************************************************)
InitRetrieve ==
    /\ store \in Stores
    /\ pipeline_state = "CREATED"
    /\ pipeline_locked = FALSE
    /\ approval_required = TRUE
    /\ approved_by = ""
    /\ generated_content = NoContent
    /\ runs = <<>>
    /\ Idle

NextRetrieve == pipeline_stages(1, Classifications)

SpecRetrieve == InitRetrieve /\ [][NextRetrieve]_vars

(***************************************************************************)
(* SpecContent: a fresh campaign with approval required, one               *)
(* execute_pipeline whose generator may return an empty object for a       *)
(* channel or fail, content edit requests and regeneration                 *)
(***************************************************************************)
InitContent ==
    /\ store \in Stores
    /\ pipeline_state = "CREATED"
    /\ pipeline_locked = FALSE
    /\ approval_required = TRUE
    /\ approved_by = ""
    /\ generated_content = NoContent
    /\ runs = <<>>
    /\ Idle

NextContent ==
    \/ pipeline_with(1, {NoFilters}, TemplateOutcomes)
    \/ StageRaises(1, "generate")
    \/ \E r \in EditRequests : edit_common_content(r)
    \/ \E r \in EditRequests : edit_contact_content(r)
    \/ regenerate_content

SpecContent == InitContent /\ [][NextContent]_vars

(***************************************************************************)
(* SpecEditing: the same campaign with a generator that returns a template *)
(* for each channel, content edit requests and an approval session with    *)
(* its edit and regenerate actions                                         *)
(***************************************************************************)
NextEditing ==
    \/ pipeline_stages(1, {NoFilters})
    \/ StageRaises(1, "generate")
    \/ \E r \in EditRequests : edit_common_content(r)
    \/ \E s \in Sessions : campaign_approval_ws(s) \/ WsEdit(s) \/ WsRegenerate(s)
    \/ \E s \in Sessions, delivered \in BOOLEAN : WsUnknown(s, delivered)

SpecEditing == InitContent /\ [][NextEditing]_vars

(***************************************************************************)
(* SpecSubstitute: _substitute called on every template of up to MaxLen    *)
(* pieces, with and without a contact record                               *)
(***************************************************************************)
Strings(n) == UNION {[1..m -> Pieces] : m \in 0..n}

StrTemplates(n) == {[kind |-> "str", pieces |-> p] : p \in Strings(n)}

\* a JSON value that is neither a dict nor a string
OtherValue == [kind |-> "other"]

Templates ==
    StrTemplates(MaxLen) \cup {OtherValue}
    \cup {[kind |-> "dict", fields |-> [subject |-> a, body |-> b]] :
            a \in StrTemplates(1) \cup {OtherValue}, b \in StrTemplates(MaxLen)}

InitSubstitute ==
    /\ store \in {[c \in Contacts |-> NoContact]}
    /\ pipeline_state = "APPROVED"
    /\ pipeline_locked = FALSE
    /\ approval_required = TRUE
    /\ approved_by = "rest"
    /\ generated_content = NoContent
    /\ runs = <<>>
    /\ Quiet
    /\ template \in Templates
    /\ subject \in [contact : ContactRecords, campaign : CampaignFields]
    /\ rendered = NotRendered

NextSubstitute == Substitute

SpecSubstitute == InitSubstitute /\ [][NextSubstitute]_vars

(***************************************************************************)
(* Properties of the orchestrator                                          *)
(***************************************************************************)
\* the invocation acquired the lock (and created its pipeline_run)
Acquired(p) == orun[p] # 0

\* C1: at most one execute_pipeline invocation is between acquiring the lock
\* and releasing it, and an invocation that found the lock set ran no stage
C1_AtMostOneHolder ==
    /\ Cardinality({p \in Invocations : HoldsLock(p)}) <= 1
    /\ \A p \in Invocations : opc[p] = "skipped" => stages[p] = <<>> /\ ~Acquired(p)

\* position of a state on the lifecycle graph
Rank(st) ==
    CASE st = "CREATED" -> 1
      [] st = "CLASSIFIED" -> 2
      [] st = "CONTACTS_RETRIEVED" -> 3
      [] st = "CHANNEL_DECIDED" -> 4
      [] st = "CONTENT_GENERATED" -> 5
      [] st = "AWAITING_APPROVAL" -> 6
      [] st = "APPROVED" -> 7
      [] st = "DISPATCHED" -> 8
      [] st = "COMPLETED" -> 9
      [] st = "FAILED" -> 10

Terminal == {"COMPLETED", "FAILED"}

Forward(a, b) == a \notin Terminal /\ Rank(a) < Rank(b)

\* C2: every change of pipeline_state goes forward on the lifecycle graph or
\* to FAILED from a non-terminal state; COMPLETED and FAILED are never left
C2_MonotonicLifecycle ==
    [][pipeline_state' # pipeline_state => Forward(pipeline_state, pipeline_state')]_vars

RowsOf(c) == {r \in outbound : r.contact_email = c}

\* C9: a campaign without approval whose stages succeeded on a non-empty
\* contact list is COMPLETED when its run has returned (nothing else being
\* invoked), with exactly one outbound_messages row per contact
C9_AutoDispatchCompletes ==
    \A p \in Invocations :
        ( /\ ~approval_required
          /\ opc[p] = "dispatch"
          /\ Returned(p)
          /\ runs[orun[p]].contacts # {}
          /\ \A q \in Invocations \ {p} : opc[q] = "start" )
        => /\ pipeline_state = "COMPLETED"
           /\ \A c \in runs[orun[p]].contacts : Cardinality(RowsOf(c)) = 1

\* C10: a dispatch_campaign invocation that read APPROVED returns with the
\* campaign COMPLETED, and COMPLETED is only written over DISPATCHED
C10_DispatchCompletes ==
    [][/\ \A d \in Dispatchers :
            ( /\ dpc[d] # "done"
              /\ dpc'[d] = "done"
              /\ (dpc[d] = "dispatched" \/ pipeline_state = "APPROVED") )
            => pipeline_state' = "COMPLETED"
       /\ (pipeline_state # "COMPLETED" /\ pipeline_state' = "COMPLETED")
            => pipeline_state = "DISPATCHED"]_vars

(***************************************************************************)
(* Properties of approval and dispatch                                     *)
(***************************************************************************)
\* C3: while a campaign created with approval_required has no approver
\* stamped, no provider has been called for it and it has no
\* outbound_messages row
C3_NoSendBeforeApproval ==
    (approval_required /\ approved_by = "")
        => /\ ncalls = 0
           /\ outbound = {}
           /\ \A d \in Dispatchers : dpending[d] = {}

SentRows ==
    {r \in outbound \cup UNION {dpending[d] : d \in Dispatchers} :
        r.send_status = "SENT"}

\* the first dispatch_campaign call of the sequence
FirstCall == Min(CeleryDispatch)

\* C5: once the first dispatch_campaign call on the APPROVED campaign has
\* returned, a further call changes neither the provider calls made nor the
\* rows with a successful send status
C5_SecondDispatchSendsNothing ==
    [][dpc[FirstCall] = "done"
          => /\ ncalls' = ncalls
             /\ accepted' = accepted
             /\ SentRows' = SentRows]_vars

\* two calls have returned; the first sent to one contact and failed to send
\* to another
C5_Witness ==
    /\ \A d \in CeleryDispatch : d <= FirstCall + 1 => dpc[d] = "done"
    /\ pipeline_state = "COMPLETED"
    /\ \E r \in outbound : r.send_status = "SENT"
    /\ \E r \in outbound : r.send_status = "FAILED"

\* C11: a dispatch_campaign call that finds the campaign in a state other
\* than APPROVED returns at once: no provider call, no outbound_messages or
\* engagement_history row, campaign state and run states unchanged
C11_DispatchNoOpUnlessApproved ==
    [][\A d \in Dispatchers :
          (dpc[d] = "start" /\ dpc'[d] # "start" /\ pipeline_state # "APPROVED")
          => /\ dpc'[d] = "done"
             /\ UNCHANGED <<sendVars, dpending, pipeline_state, runs>>]_vars

\* a call has returned without entering its loop on a campaign that an
\* earlier call had completed with rows
C11_Witness ==
    \E d \in Dispatchers :
        /\ dpc[d] = "done"
        /\ dsnap[d] = NoContent
        /\ pipeline_state = "COMPLETED"
        /\ outbound # {}

\* the contacts of its bundle a dispatch_campaign call has iterated over
Processed(d) == DOMAIN dsnap[d].contacts \ dtodo[d]

\* the rows a call can see: committed, or added to its session
RowsSeen(d) == outbound \cup dpending[d]

\* C12: a failed provider call is recorded as a FAILED row for its contact,
\* every contact iterated over is either skipped or has its row whatever
\* happened to the contacts before it, and a call that entered the loop
\* returns with the campaign COMPLETED
C12_FailedSendDoesNotAbort ==
    /\ Cardinality({r \in outbound \cup UNION {dpending[d] : d \in Dispatchers} :
                        r.send_status = "FAILED"})
          = ncalls - Cardinality(accepted)
    /\ \A d \in Dispatchers :
          dsnap[d] # NoContent =>
            /\ \A c \in Processed(d) :
                  \/ Skipped(d, c, dsnap[d].contacts[c])
                  \/ \E r \in RowsSeen(d) :
                        /\ r.contact_email = c
                        /\ r.channel = dsnap[d].contacts[c]
            /\ dpc[d] = "done" => dtodo[d] = {} /\ pipeline_state = "COMPLETED"

\* the provider failed for the first contact, the second contact was sent
\* to afterwards, and the campaign is COMPLETED
C12_Witness ==
    /\ pipeline_state = "COMPLETED"
    /\ \E r1, r2 \in outbound :
          /\ r1.contact_email = 1
          /\ r1.send_status = "FAILED"
          /\ r2.contact_email = 2
          /\ r2.send_status = "SENT"
          /\ r2.provider_message_id > 0

\* approve actions the session has acknowledged so far
Approvals(s) == ReviewItems(generated_content) - wpending[s]

\* the channels of the items under review
ChannelsUnderReview ==
    {generated_content.personalized[c] : c \in DOMAIN generated_content.personalized}

C14_DisconnectLeavesState ==
    [][\A s \in Sessions :
          (wpending'[s] > 0 /\ wpc'[s] # wpc[s])
          => /\ pipeline_state' = pipeline_state
             /\ approved_by' = approved_by
             /\ runs' = runs
             /\ dpc'[SessionDispatch(s)] = "idle"]_vars

\* the client left after the first of two items was approved
C14_Witness ==
    \E s \in Sessions :
        /\ wpc[s] = "disconnected"
        /\ wpending[s] = 1
        /\ ReviewItems(generated_content) = 2
        /\ pipeline_state = "AWAITING_APPROVAL"
        /\ dpc[SessionDispatch(s)] = "idle"

\* C15: a session that has committed APPROVED and has ended has invoked
\* dispatch_campaign
C15_ApprovedSessionDispatches ==
    \A s \in Sessions :
        wpc[s] \in {"approved", "aborted"} => dpc[SessionDispatch(s)] # "idle"

\* the typed errors of the approval endpoints
ApprovalErrors == {"NOT_FOUND", "INVALID_STATE"}

\* C16: an approval session or an approve request for an unknown campaign or
\* for a campaign that is not AWAITING_APPROVAL ends with a typed error,
\* changes nothing of the campaign and starts no dispatch; the session stays
\* closed
C16_ApprovalPrecondition ==
    [][/\ (apc = "idle" /\ apc' # "idle" /\ pipeline_state # "AWAITING_APPROVAL")
            => /\ apc' \in ApprovalErrors
               /\ UNCHANGED <<pipeline_state, approved_by, runs, generated_content, dpc>>
       /\ apc \in ApprovalErrors
            => apc' = apc /\ dpc'[ApproveDispatch] = "idle"
       /\ \A s \in Sessions :
            /\ (wpc[s] = "idle" /\ wpc'[s] # "idle" /\ pipeline_state # "AWAITING_APPROVAL")
                  => /\ wpc'[s] \in ApprovalErrors
                     /\ UNCHANGED <<pipeline_state, approved_by, runs, generated_content, dpc>>
            /\ wpc[s] \in ApprovalErrors
                  => wpc'[s] = wpc[s] /\ dpc'[SessionDispatch(s)] = "idle"]_vars

\* both endpoints have answered INVALID_STATE on a campaign whose run failed
C16_Witness ==
    /\ apc = "INVALID_STATE"
    /\ \E s \in Sessions : wpc[s] = "INVALID_STATE"
    /\ pipeline_state = "FAILED"
    /\ approved_by = ""

\* C17: the step that ends the locked region after content generation writes
\* AWAITING_APPROVAL and starts no dispatch when approval_required, and writes
\* APPROVED and calls dispatch_campaign otherwise; approval_required never
\* changes
C17_ApprovalBranch ==
    [][/\ approval_required' = approval_required
       /\ \A p \in Invocations :
            (opc[p] = "finish" /\ opc'[p] # "finish")
            => IF approval_required
               THEN /\ pipeline_state' = "AWAITING_APPROVAL"
                    /\ opc'[p] = "done"
                    /\ dpc'[InlineDispatch(p)] = "idle"
               ELSE /\ pipeline_state' = "APPROVED"
                    /\ opc'[p] = "dispatch"
                    /\ dpc'[InlineDispatch(p)] = "start"]_vars

\* a run with approval_required has returned leaving AWAITING_APPROVAL and
\* no dispatch
C17_Witness ==
    \E p \in Invocations :
        /\ approval_required
        /\ opc[p] = "done"
        /\ pipeline_state = "AWAITING_APPROVAL"
        /\ \A d \in Dispatchers : dpc[d] = "idle"

(***************************************************************************)
(* Properties of the stage agents                                          *)
(***************************************************************************)
\* the scores of a contact that are present
PresentScores(contact) == {ch \in Channels : ScoreOf(contact, ch) # NULL}

\* the fixed order Email > LinkedIn > Call
PriorityRank(ch) ==
    CASE ch = "Email" -> 1
      [] ch = "LinkedIn" -> 2
      [] ch = "Call" -> 3

\* C18: for every combination of the three scores, the channel decided for a
\* contact is Email when all scores are absent, and otherwise a channel whose
\* score is present and highest and that comes first in the order
\* Email > LinkedIn > Call among the channels with that score
C18_DecideChannel ==
    \A i \in 1..Len(runs) : \A c \in DOMAIN runs[i].channel_map :
        LET ch == runs[i].channel_map[c]
            contact == store[c]
        IN  IF PresentScores(contact) = {} THEN ch = "Email"
            ELSE /\ ch \in PresentScores(contact)
                 /\ \A o \in PresentScores(contact) :
                       /\ ScoreOf(contact, o) <= ScoreOf(contact, ch)
                       /\ ScoreOf(contact, o) = ScoreOf(contact, ch)
                          => PriorityRank(ch) <= PriorityRank(o)

\* a tie of the two highest scores, with Email absent, decided for LinkedIn
C18_Witness ==
    /\ store[1] = Profile(NULL, MaxScore, MaxScore)
    /\ Len(runs) = 1
    /\ 1 \in DOMAIN runs[1].channel_map
    /\ runs[1].channel_map[1] = "LinkedIn"

\* the Retrieval stage of the invocation has run
RetrievalRan(p) == \E i \in 1..Len(stages[p]) : stages[p][i] = "retrieve"

\* C19: over a non-empty Contact Store, once the Retrieval stage has run the
\* run holds at least one retrieved contact, whatever the classification
C19_RetrievalNeverEmpty ==
    \A p \in Invocations :
        (RetrievalRan(p) /\ Present # {}) => runs[orun[p]].contacts # {}

\* C20: the step of the Classification stage in which the generator call
\* fails persists the all-empty filters, makes the run and the campaign
\* CLASSIFIED and hands over to Retrieval; and a run whose generator call
\* failed holds the all-empty filters ever after
C20_ClassificationFallback ==
    /\ [][\A p \in Invocations :
            (opc[p] = "classify" /\ opc'[p] # "classify"
                /\ runs'[orun[p]].classification_log = "FAILED")
            => /\ runs'[orun[p]].classification = NoFilters
               /\ runs'[orun[p]].state = "CLASSIFIED"
               /\ pipeline_state' = "CLASSIFIED"
               /\ opc'[p] = "retrieve"]_vars
    /\ [](\A i \in 1..Len(runs) :
            runs[i].classification_log = "FAILED" => runs[i].classification = NoFilters)

\* after a failed generator call the Retrieval stage has run on the all-empty
\* filters and returned every stored contact
C20_Witness ==
    /\ Len(runs) = 1
    /\ runs[1].classification_log = "FAILED"
    /\ runs[1].classification = NoFilters
    /\ runs[1].state = "CONTACTS_RETRIEVED"
    /\ runs[1].contacts = Present
    /\ Present # {}

(***************************************************************************)
(* Properties of the content                                               *)
(***************************************************************************)
\* the keys that name a contact field or a campaign or sender field
FieldKeys ==
    {"contact_name", "name", "contact_role", "role", "contact_company", "company",
     "email", "preferred_time", "email_click_rate", "linkedin_click_rate",
     "call_answer_rate", "product_link", "cta_link", "your_name", "sender",
     "from_name", "campaign_name"}

\* a bracketed token whose key matches no field
Unresolved(piece) == piece.token /\ Normalise(piece.text) \notin FieldKeys

\* every unresolved token of the template stands unchanged at its place in
\* the result, which has the shape of the template
RECURSIVE Kept(_, _)
Kept(tmpl, res) ==
    /\ res.kind = tmpl.kind
    /\ tmpl.kind = "dict" =>
          /\ DOMAIN res.fields = DOMAIN tmpl.fields
          /\ \A f \in DOMAIN tmpl.fields : Kept(tmpl.fields[f], res.fields[f])
    /\ tmpl.kind = "str" =>
          /\ Len(res.pieces) = Len(tmpl.pieces)
          /\ \A i \in 1..Len(tmpl.pieces) :
                Unresolved(tmpl.pieces[i]) => res.pieces[i] = tmpl.pieces[i]

\* C21: for every template, contact record (or none) and campaign,
\* _substitute returns a value, and every bracketed token whose key names no
\* contact, campaign or sender field stands unchanged in the result
C21_UnresolvedTokensKept ==
    [][rendered' # rendered => rendered' # NotRendered /\ Kept(template, rendered')]_vars

\* without a contact record, a template with an unresolved token next to a
\* sender token came back with the first kept and the second replaced
C21_Witness ==
    /\ ~subject.contact.present
    /\ template = [kind |-> "str",
                   pieces |-> <<Token("unsubscribe"), Token("Your Name")>>]
    /\ rendered = [kind |-> "str",
                   pieces |-> <<Token("unsubscribe"), Text("Xyndrix Team")>>]

\* C22: once content has been generated, the bundle has an entry for each of
\* the three channels, and the channel of every contact of the bundle has a
\* non-empty template, also after edits and regenerations
C22_AssignedChannelsHaveTemplates ==
    generated_content # NoContent =>
        /\ generated_content.common = Channels
        /\ \A c \in DOMAIN generated_content.personalized :
              generated_content.templates[generated_content.personalized[c]] # "empty"

\* the contacts of the generated content
InContent(bundle) == DOMAIN bundle.personalized \cup DOMAIN bundle.contacts

\* the channel of a contact of the generated content
ContentChannel(bundle, c) ==
    IF c \in DOMAIN bundle.contacts THEN bundle.contacts[c] ELSE bundle.personalized[c]

\* C23: a content edit request for a contact of an existing campaign is
\* rejected with INVALID_STATE outside CONTENT_GENERATED and
\* AWAITING_APPROVAL and with CONTACT_NOT_FOUND for a contact that is not in
\* the generated content, both without a change of the bundle, and otherwise
\* goes on to replace the template of the contact's channel
C23_ContactEdit ==
    [][\A r \in EditRequests :
          (epc[r] = "idle" /\ epc'[r] \notin {"idle", "NOT_FOUND"} /\ ekey'[r] # 0)
          => IF pipeline_state \notin Editable
             THEN epc'[r] = "INVALID_STATE" /\ UNCHANGED generated_content
             ELSE IF ekey'[r] \notin InContent(generated_content)
             THEN epc'[r] = "CONTACT_NOT_FOUND" /\ UNCHANGED generated_content
             ELSE /\ epc'[r] = "write"
                  /\ etarget'[r] = ContentChannel(generated_content, ekey'[r])]_vars

\* C27: the write of a content edit changes no template but the one it
\* replaces: no template persisted since the request read the bundle is
\* put back to what it was
C27_NoLostUpdate ==
    [][\A r \in EditRequests :
          (epc[r] = "write" /\ epc'[r] = "done")
          => \A ch \in generated_content.common \ {etarget[r]} :
                /\ ch \in generated_content'.common
                /\ generated_content'.templates[ch] = generated_content.templates[ch]]_vars

\* C29: once Channel-Decision and Content-Generation of a run have succeeded,
\* the "contacts" map of the bundle, which dispatch iterates, holds every
\* retrieved contact with the channel decided for it
C29_ContactChannelMap ==
    \A p \in Invocations :
        opc[p] \in {"finish", "done"} =>
            \A c \in runs[orun[p]].contacts :
                /\ c \in DOMAIN generated_content.contacts
                /\ generated_content.contacts[c] = runs[orun[p]].channel_map[c]

(***************************************************************************)
(* Properties of concurrent approval and dispatch                          *)
(***************************************************************************)
\* C24: the close-out of an approval session that finds the campaign no
\* longer AWAITING_APPROVAL leaves pipeline_state as it is and does not go
\* on to the confirmation that starts the session's dispatch
C24_CloseOutOnlyWhenAwaiting ==
    [][\A s \in Sessions :
          (wpc[s] = "closeout" /\ wpc'[s] # "closeout"
              /\ pipeline_state # "AWAITING_APPROVAL")
          => /\ pipeline_state' = pipeline_state
             /\ wpc'[s] # "confirm"]_vars

\* a SENT row of the tuple that the invocation can see: committed, or added
\* to its own session
SeesSent(d, c, ch) ==
    \E r \in outbound \cup dpending[d] :
        r.contact_email = c /\ r.channel = ch /\ r.send_status = "SENT"

C28_DispatchFailureKeepsState ==
    [][\A p \in Invocations :
          (opc[p] = "except" /\ opc'[p] # "except"
              /\ dpc[InlineDispatch(p)] = "raised")
          => pipeline_state' = pipeline_state]_vars

(***************************************************************************)
(* Order of the stages                                                     *)
(***************************************************************************)
\* pipeline_runner.py lines 74-90: the stages in the order of their calls
STAGE_ORDER == <<"classify", "retrieve", "decide", "generate">>

\* the state each stage persists, after the state of the new campaign
STATE_ORDER ==
    <<"CREATED", "CLASSIFIED", "CONTACTS_RETRIEVED", "CHANNEL_DECIDED",
      "CONTENT_GENERATED">>

\* the stages of the invocation that have completed
Completed(p) ==
    CASE opc[p] = "classify" -> 0
      [] opc[p] = "retrieve" -> 1
      [] opc[p] = "decide" -> 2
      [] opc[p] = "generate" -> 3
      [] opc[p] = "finish" -> 4
      [] opc[p] = "except" -> Len(stages[p]) - 1

InStages(p) == opc[p] \in {"classify", "retrieve", "decide", "generate", "finish", "except"}

C31_EditStaysOnItem ==
    [][\A s \in Sessions :
          WsEdit(s) => /\ wpc'[s] = "review"
                       /\ wsent'[s] = "CONTACT_CONTENT"]_vars

\* C32: a regenerate action of the approval session approves nothing, is
\* answered with the content of the item and keeps the session open on it,
\* whether or not the generator succeeded
C32_RegenerateKeepsSession ==
    [][\A s \in Sessions :
          WsRegenerate(s) => /\ wpc'[s] = "review"
                             /\ wpending'[s] = wpending[s]
                             /\ wsent'[s] \in {"CONTACT_CONTENT", "REGENERATE_FAILED"}]_vars

\* C33: an acknowledged approve_all action leaves no item pending and takes
\* the session to its close-out; from there no content is presented any more
\* and the next step of the session writes APPROVED on the campaign
C33_ApproveAll ==
    [][\A s \in Sessions :
          /\ WsApproveAll(s, TRUE) => wpending'[s] = 0 /\ wpc'[s] = "closeout"
          /\ wpc[s] = "closeout" => wsent'[s] # "CONTACT_CONTENT"
          /\ wpc[s] = "closeout" /\ wpc'[s] # "closeout" =>
                pipeline_state' = "APPROVED" /\ wpc'[s] = "confirm"]_vars

\* approve_all was acknowledged on a bundle with more than one item and the
\* session has written APPROVED
C33_Witness ==
    \E s \in Sessions :
        /\ wsent[s] = "ALL_APPROVED"
        /\ wpc[s] = "confirm"
        /\ wpending[s] = 0
        /\ pipeline_state = "APPROVED"
        /\ Cardinality(DOMAIN generated_content.personalized) > 1

\* C34: a message with any other action value is answered UNKNOWN_ACTION,
\* changes neither the campaign nor its runs nor the pending items, and the
\* session stays on the item under review
C34_UnknownAction ==
    [][\A s \in Sessions :
          WsUnknown(s, TRUE) =>
              /\ wsent'[s] = "UNKNOWN_ACTION"
              /\ wpc'[s] = "review"
              /\ wpending'[s] = wpending[s]
              /\ UNCHANGED <<pipeline_state, pipeline_locked, approved_by,
                             generated_content, runs>>]_vars

\* an unknown action was answered and the item is still under review
C34_Witness ==
    \E s \in Sessions :
        /\ wsent[s] = "UNKNOWN_ACTION"
        /\ wpc[s] = "review"
        /\ wpending[s] > 0
        /\ pipeline_state = "AWAITING_APPROVAL"

(***************************************************************************)
(* Relaxation of the filters in Retrieval                                  *)
(***************************************************************************)
\* the filters left after k relaxations: company, location, category and role
\* cleared in that order, each on top of the ones before
ClearedSets ==
    <<{}, {"company"}, {"company", "location"}, {"company", "location", "category"},
      {"company", "location", "category", "role"}>>

ClearedTo(filters, k) ==
    [key \in FilterKeys |-> IF key \in ClearedSets[k] THEN NoFilter ELSE filters[key]]

\* the relaxations whose query returns a contact
Productive(filters) == {k \in 1..Len(ClearedSets) : Query(ClearedTo(filters, k)) # {}}

\* C36: the contacts a successful Retrieval stage persists are the result of
\* the first non-empty query in the sequence: the classified filters, then
\* with company cleared, then location too, then category too, then role too;
\* the unfiltered first rows are persisted only when every one of these
\* queries is empty
C36_RelaxInOrder ==
    \A p \in Invocations :
        (RetrievalRan(p) /\ opc[p] \notin {"except", "failed"}) =>
            LET filters == runs[orun[p]].classification
            IN  runs[orun[p]].contacts =
                    IF Productive(filters) = {}
                    THEN Top(Present, FALLBACK_LIMIT)
                    ELSE Query(ClearedTo(filters, Min(Productive(filters))))

\* Retrieval has persisted the result of the query with company and location
\* cleared and a later filter kept: the classified query and the one with
\* company cleared were empty, and the result is not the whole store
C36_Witness ==
    \E p \in Invocations :
        /\ RetrievalRan(p)
        /\ opc[p] \notin {"except", "failed"}
        /\ Min(Productive(runs[orun[p]].classification) \cup {9}) = 3
        /\ runs[orun[p]].contacts # Present
        /\ runs[orun[p]].contacts # {}

C38_AwaitingUnlocked == pipeline_state = "AWAITING_APPROVAL" => ~pipeline_locked

\* C37: the step by which an invocation records its failure changes none of
\* the pipeline runs of earlier executions that have ended
C37_EarlierRunsKept ==
    [][\A p \in Invocations :
          (opc[p] = "except" /\ opc'[p] = "failed") =>
              \A i \in 1..(orun[p] - 1) :
                  (\E q \in Invocations : orun[q] = i /\ Returned(q)) => runs'[i] = runs[i]]_vars

\* C40: a step that makes the campaign FAILED is the except clause of an
\* execute_pipeline invocation, and a step that changes pipeline_locked is an
\* invocation setting the lock, finishing, or its except clause
C40_OnlyOrchestratorFails ==
    [][/\ (pipeline_state' = "FAILED" /\ pipeline_state # "FAILED") =>
              \E p \in Invocations : opc[p] = "except" /\ opc'[p] = "failed"
       /\ (pipeline_locked' # pipeline_locked) =>
              \E p \in Invocations :
                  /\ opc[p] \in {"lock", "finish", "except"}
                  /\ opc'[p] # opc[p]]_vars

\* an invocation has recorded FAILED and released the lock, and a content
\* regeneration has raised
C40_Witness ==
    /\ \E p \in Invocations : opc[p] = "failed"
    /\ pipeline_state = "FAILED"
    /\ ~pipeline_locked
    /\ gpc = "raised"

(***************************************************************************)
(* Stage log entries                                                       *)
(***************************************************************************)
\* C39: once an invocation has ended, every stage it started has a log entry
\* on its run with status SUCCESS or FAILED
C39_LogsSettled ==
    \A p \in Invocations :
        (opc[p] \in {"done", "failed"} /\ orun[p] # 0) =>
            \A i \in 1..Len(stages[p]) :
                runs[orun[p]][LogField(stages[p][i])] \in {"SUCCESS", "FAILED"}

====
